---- MODULE Spec2Model ----
(***************************************************************************)
(* The lockfile resolution graph of SatisfactoryModLauncherAPI             *)
(* (LockfileGraph, getItemData, findAllVersionsMatchingAll).               *)
(*                                                                         *)
(* A version is a semver triple <<major, minor, patch>>; a range is a      *)
(* record [op, v] standing for the range strings "x.y.z" (op = "eq"),      *)
(* ">=x.y.z" (op = "ge") and "^x.y.z" (op = "caret").  A dependency map    *)
(* (ItemVersionList) is the sequence of its [id, range] entries in         *)
(* insertion order, which is the order Object.entries yields.              *)
(***************************************************************************)
EXTENDS Integers, Sequences, FiniteSets, TLC

\* ---------------------------------------------------------------- bounds

\* Number of distinct versions an item can have.
MaxVer == 2
\* Number of nodes a caller puts in the graph before resolving.
MaxNodes == 2
\* Minutes the clock of the catalog cache runs.
MaxTime == 6

\* ------------------------------------------------------------ identifiers

SML == "SML"
SatisfactoryGame == "SatisfactoryGame"
ModIds == {"A", "B"}
Ids == ModIds \cup {SML, SatisfactoryGame}

\* ------------------------------------------------------- version algebra

\* The n-th version of the bounded universe: 1.0.0, 1.1.0, 2.0.0, 2.1.0, ...
V(n) == <<(n + 1) \div 2, (n + 1) % 2, 0>>
Versions == {V(n) : n \in 1..MaxVer}

\* semver.compare: precedence of two versions, -1, 0 or 1.
compare(a, b) ==
  IF a[1] # b[1] THEN (IF a[1] < b[1] THEN -1 ELSE 1)
  ELSE IF a[2] # b[2] THEN (IF a[2] < b[2] THEN -1 ELSE 1)
  ELSE IF a[3] # b[3] THEN (IF a[3] < b[3] THEN -1 ELSE 1)
  ELSE 0

\* semver.satisfies(version, range) for the three range shapes.
satisfies(v, r) ==
  CASE r.op = "eq" -> compare(v, r.v) = 0
    [] r.op = "ge" -> compare(v, r.v) >= 0
    [] r.op = "caret" ->
         /\ compare(v, r.v) >= 0
         /\ IF r.v[1] > 0 THEN v[1] = r.v[1]
            ELSE IF r.v[2] > 0 THEN v[1] = 0 /\ v[2] = r.v[2]
            ELSE v = r.v

\* valid(coerce(n)) of a bare integer n: the version n.0.0.
coerce(n) == <<n, 0, 0>>

\* utils.versionSatisfiesAll: the version satisfies every range of the list.
versionSatisfiesAll(v, ranges) ==
  \A k \in 1..Len(ranges) : satisfies(v, ranges[k])

\* ------------------------------------------------------- dependency maps

\* `id in dependencies`
HasDep(deps, id) == \E k \in 1..Len(deps) : deps[k].id = id

\* `dependencies[id]`, for an id that is a key
DepRange(deps, id) == deps[CHOOSE k \in 1..Len(deps) : deps[k].id = id].range

\* `dependencies[id] = range`: an existing key keeps its place, a new key is
\* appended.
SetDep(deps, id, range) ==
  IF HasDep(deps, id)
  THEN [k \in 1..Len(deps) |->
          IF deps[k].id = id THEN [id |-> id, range |-> range] ELSE deps[k]]
  ELSE Append(deps, [id |-> id, range |-> range])

\* ------------------------------------------------------------------ nodes

\* LockfileGraphNode.  isInManifest is optional in the source; an absent flag
\* is falsy and is FALSE here.
Node(id, version, dependencies, isInManifest) ==
  [id |-> id, version |-> version, dependencies |-> dependencies,
   isInManifest |-> isInManifest]

\* `undefined` where the source holds a node or nothing.
NoNode == Node("", <<0, 0, 0>>, <<>>, FALSE)

\* The dependency maps of the bounded universe for the mod `id`, `other`
\* being the other mod: none, one dependency (on the other mod, on itself,
\* on SML), or two.
Dep(id, op, v) == [id |-> id, range |-> [op |-> op, v |-> v]]
Other(id) == CHOOSE m \in ModIds : m # id
DepsInputs(id) ==
  { <<>>,
    <<Dep(Other(id), "eq", V(MaxVer))>>,
    <<Dep(Other(id), "caret", V(1))>>,
    <<Dep(id, "eq", V(1))>>,
    <<Dep(SML, "caret", V(1))>>,
    <<Dep(Other(id), "eq", V(1)), Dep(SML, "caret", V(1))>> }

\* ---------------------------------------------------------------- state

VARIABLES
  nodes,      \* LockfileGraph.nodes
  published,  \* what the catalog answers for an id (getMod, getAvailableSMLVersions)
  itemData,   \* what getCachedMod / getSMLVersionInfo hold for <<id, version>>
  pc,         \* "idle", or the place a running validateAll / validate is at
  mode,       \* the running call: "validateAll" or "validate"
  i,          \* forEachAsync index of validateAll over this.nodes
  cur,        \* the node validate was called with
  k,          \* forEachAsync index of validate over Object.entries(cur.dependencies)
  result,     \* how the last call ended: "ok" or the error it threw
  atCall,     \* this.nodes when the last call started
  before,     \* this.nodes when the last dependency step started
  last,       \* what the last step did
  again,      \* the running validateAll follows a validateAll that succeeded
  oldLockfile, \* lockfileDifference: the oldLockfile argument
  newLockfile, \* lockfileDifference: the newLockfile argument
  diff,       \* the LockfileDiff that lockfileDifference returned
  applied,    \* the id-to-version map of the caller who applied the diff
  op,         \* the installMod / uninstallMod call of the owner of the graph
  cachedFetch, \* ficsitApp.cachedFetch: requestID -> [time, data]
  now,        \* Date.now(), in minutes
  flight,     \* the calls of getMod / getModVersions that await their answer
  ret,        \* how the last call that ended has ended
  prevFetch   \* the entry of cachedFetch that the last setCache replaced

\* The state of the graph and of its resolver.
graphVars == <<nodes, published, itemData, pc, mode, i, cur, k, result, atCall,
               before, last, again>>

\* The arguments and the result of lockfileDifference, and its caller.
diffVars == <<oldLockfile, newLockfile, diff, applied>>

\* The cache of the catalog answers, its callers and the clock.
cacheVars == <<cachedFetch, now, flight, ret, prevFetch>>

\* The state outside the graph.
aside == <<diffVars, op, cacheVars>>

vars == <<graphVars, aside>>

NoStep == [kind |-> "none", node |-> NoNode, dep |-> Dep("", "eq", <<0, 0, 0>>),
           prior |-> NoNode, ranges |-> <<>>, matching |-> <<>>, bound |-> NoNode,
           fetched |-> FALSE]

\* ------------------------------------------------------- graph operations

\* this.nodes.find((graphNode) => graphNode.id === id): the first such node.
find(ns, id) ==
  IF \E j \in 1..Len(ns) : ns[j].id = id
  THEN ns[CHOOSE j \in 1..Len(ns) :
            ns[j].id = id /\ \A h \in 1..(j - 1) : ns[h].id # id]
  ELSE NoNode

\* array.indexOf(element), 1-based; 0 when the element is absent.
indexOf(ns, node) ==
  IF \E j \in 1..Len(ns) : ns[j] = node
  THEN CHOOSE j \in 1..Len(ns) : ns[j] = node /\ \A h \in 1..(j - 1) : ns[h] # node
  ELSE 0

\* utils.removeArrayElement: splice the element out, if present.
removeArrayElement(ns, node) ==
  LET at == indexOf(ns, node)
  IN  IF at = 0 THEN ns
      ELSE [j \in 1..(Len(ns) - 1) |-> IF j < at THEN ns[j] ELSE ns[j + 1]]

\* LockfileGraph.remove
remove(ns, node) == removeArrayElement(ns, node)

\* add without the check for a node of the same id.
add_unchecked(ns, node) == Append(ns, node)

\* LockfileGraph.add: a node whose id is present is not added.
add(ns, node) ==
  IF \E j \in 1..Len(ns) : ns[j].id = node.id
  THEN ns
  ELSE Append(ns, node)

\* LockfileGraph.getDependants
getDependants(ns, node) ==
  SelectSeq(ns, LAMBDA g : HasDep(g.dependencies, node.id))

\* LockfileGraph.roots
roots(ns) == SelectSeq(ns, LAMBDA g : Len(getDependants(ns, g)) = 0)

\* isNodeDangling without the manifest check.
isNodeDangling_anyNode(ns, node) == Len(getDependants(ns, node)) = 0

\* LockfileGraph.isNodeDangling
isNodeDangling(ns, node) ==
  Len(getDependants(ns, node)) = 0 /\ ~node.isInManifest

\* utils.removeArrayElementWhere with the isNodeDangling condition: the
\* elements for which the condition holds are collected first, then removed.
removeArrayElementWhere(ns) ==
  SelectSeq(ns, LAMBDA g : ~isNodeDangling(ns, g))

\* LockfileGraph.cleanup
cleanup(ns) == removeArrayElementWhere(ns)

\* The ranges the nodes of the graph put on depId, in node order
\* (validate, lines 92-94).
versionConstraints(ns, depId) ==
  LET naming == SelectSeq(ns, LAMBDA g : HasDep(g.dependencies, depId))
  IN  [j \in 1..Len(naming) |-> DepRange(naming[j].dependencies, depId)]

\* A lockfile entry of LockfileGraph.fromLockfile: isInManifest is not set.
fromLockfileEntry(id, version, dependencies) ==
  Node(id, version, dependencies, FALSE)

\* The set of <<id, version>> pairs of a node list.
Pins(ns) == {<<ns[j].id, ns[j].version>> : j \in 1..Len(ns)}

\* ---------------------------------------------------------------- catalog

\* What the catalog can answer when asked for the versions of an id: a
\* GraphQL error (kind "errors"), no such item (kind "null"), or the list
\* of published versions: the first n versions of the universe.
PublishedInputs ==
  {[kind |-> "errors", versions |-> {}], [kind |-> "null", versions |-> {}]}
    \cup {[kind |-> "ok", versions |-> {V(m) : m \in 1..n}] : n \in 0..MaxVer}

NotFetched == [kind |-> "none", versions |-> {}]

\* The dependency maps the archives of the mod `id` declare.
CatalogDeps(id) ==
  { <<>>,
    <<Dep(Other(id), "eq", V(MaxVer))>>,
    <<Dep(id, "eq", V(1))>> }

\* What a mod archive (data.json) can hold, or kind "fail" when the archive
\* cannot be had.  sml_version 0 stands for an absent field.
ModDataInputs(id) ==
  {[kind |-> "fail", hasDependencies |-> FALSE, dependencies |-> <<>>,
    sml_version |-> 0, satisfactory_version |-> 0]}
    \cup {[kind |-> "ok", hasDependencies |-> TRUE, dependencies |-> d,
           sml_version |-> 0, satisfactory_version |-> 0] : d \in CatalogDeps(id)}
    \cup {[kind |-> "ok", hasDependencies |-> FALSE, dependencies |-> <<>>,
           sml_version |-> 1, satisfactory_version |-> 0]}
    \cup {[kind |-> "ok", hasDependencies |-> TRUE,
           dependencies |-> <<Dep(SML, "eq", V(MaxVer))>>,
           sml_version |-> 1, satisfactory_version |-> 0]}

\* What the catalog holds for one SML version: the game version it needs.
SMLInfoInputs ==
  {[kind |-> "ok", hasDependencies |-> FALSE, dependencies |-> <<>>,
    sml_version |-> 0, satisfactory_version |-> g] : g \in 1..MaxVer}

ItemInputs(id) == IF id = SML THEN SMLInfoInputs ELSE ModDataInputs(id)

NoData == [kind |-> "none", hasDependencies |-> FALSE, dependencies |-> <<>>,
           sml_version |-> 0, satisfactory_version |-> 0]

ItemKeys == (ModIds \cup {SML}) \X Versions

\* The versions in ascending semver order
\* (matchingDependencyVersions.sort((a, b) => compare(a, b))).
RECURSIVE sortAscending(_)
sortAscending(S) ==
  IF S = {} THEN <<>>
  ELSE LET top == CHOOSE v \in S : \A w \in S : compare(w, v) <= 0
       IN  Append(sortAscending(S \ {top}), top)

\* ficsitApp.findAllVersionsMatchingAll on a catalog answer: the error it
\* throws, or the published versions that satisfy every range.
findAllVersionsMatchingAll(answer, ranges) ==
  CASE answer.kind = "errors" -> [err |-> "ApiErrors", versions |-> {}]
    [] answer.kind = "null" -> [err |-> "TypeError", versions |-> {}]
    [] OTHER -> [err |-> "",
                 versions |-> {v \in answer.versions : versionSatisfiesAll(v, ranges)}]

\* shift() in place of pop(): the first element of the sorted list.
popVersion_oldest(matching) == matching[1]

\* matchingDependencyVersions.pop(): the last element of the sorted list.
popVersion(matching) == matching[Len(matching)]

\* getItemData without the SatisfactoryGame guard of lines 48-50.
getItemData_noGameGuard(id, version, answer, data) ==
  IF id = SML
  THEN [err |-> "",
        node |-> Node(id, version,
                      <<Dep(SatisfactoryGame, "ge", coerce(data.satisfactory_version))>>,
                      FALSE)]
  ELSE IF data.kind = "fail" THEN [err |-> "ModCacheError", node |-> NoNode]
  ELSE [err |-> "",
        node |-> Node(id, version,
                      IF data.hasDependencies THEN data.dependencies ELSE <<>>, FALSE)]

\* getItemData(id, version): the error it throws or the node it returns.
\* `answer` is the catalog's SML version list, `data` the archive of the mod
\* or the catalog's record of the SML version.
getItemData(id, version, answer, data) ==
  CASE id = SML ->
         IF answer.kind = "errors" THEN [err |-> "ApiErrors", node |-> NoNode]
         ELSE IF answer.kind = "null" THEN [err |-> "TypeError", node |-> NoNode]
         ELSE IF version \notin answer.versions
         THEN [err |-> "ModNotFound", node |-> NoNode]
         ELSE [err |-> "",
               node |-> Node(id, version,
                             <<Dep(SatisfactoryGame, "ge",
                                   coerce(data.satisfactory_version))>>,
                             FALSE)]
    [] id = SatisfactoryGame ->
         [err |-> "InvalidLockfileOperation", node |-> NoNode]
    [] OTHER ->
         IF data.kind = "fail" THEN [err |-> "ModCacheError", node |-> NoNode]
         ELSE LET declared == IF data.hasDependencies THEN data.dependencies ELSE <<>>
                  deps == IF data.sml_version # 0
                          THEN SetDep(declared, SML,
                                      [op |-> "ge", v |-> coerce(data.sml_version)])
                          ELSE declared
              IN  [err |-> "", node |-> Node(id, version, deps, FALSE)]

\* ------------------------------------------------------- caller's inputs

\* Nodes a lockfile entry can give: a mod, or SML with its game dependency.
LockfileNodes ==
  UNION {{fromLockfileEntry(id, v, d) : v \in Versions, d \in DepsInputs(id)} :
         id \in ModIds}
    \cup {fromLockfileEntry(SML, v,
            <<Dep(SatisfactoryGame, "ge", coerce(g))>>) :
            v \in Versions, g \in 1..MaxVer}

\* Lockfiles of at most MaxNodes entries, one per id, in key order.
RECURSIVE LockfilesOf(_)
LockfilesOf(n) ==
  IF n = 0 THEN {<<>>}
  ELSE LET shorter == LockfilesOf(n - 1)
       IN  shorter \cup
           {Append(lf, e) : lf \in {x \in shorter : Len(x) = n - 1},
                            e \in LockfileNodes}
Lockfiles ==
  {lf \in LockfilesOf(MaxNodes) :
     Len(lf) > 0 /\ \A a, b \in 1..Len(lf) : a # b => lf[a].id # lf[b].id}

\* Nodes a caller adds: a mod or SML (in the manifest or not), or the game.
NodeInputs ==
  {[n EXCEPT !.isInManifest = m] : n \in LockfileNodes, m \in BOOLEAN}
    \cup {Node(SatisfactoryGame, coerce(g), <<>>, m) : g \in 1..MaxVer, m \in BOOLEAN}

\* ------------------------------------------------------------------ Init

\* No LockfileDiff has been computed.
NoDiff == [done |-> FALSE, install |-> <<>>, uninstall |-> <<>>]
NotApplied == [done |-> FALSE, map |-> <<>>]

\* The owner of the graph runs no installMod or uninstallMod.
NoOp == [kind |-> "none", id |-> "", version |-> <<0, 0, 0>>, prior |-> <<>>,
         phase |-> "none", error |-> ""]

\* No lockfileDifference call.
DiffIdle ==
  /\ oldLockfile = <<>>
  /\ newLockfile = <<>>
  /\ diff = NoDiff
  /\ applied = NotApplied

\* The requestID of a call, `getMod_${modID}` or `getModVersions_${modID}`,
\* as the pair of its two parts: "getMod_" is no prefix of "getModVersions_"
\* (the eighth character differs), so two requestIDs are the same string
\* exactly when they are the same pair.
requestID(fn, modID) == <<fn, modID>>
CachedFns == {"getMod", "getModVersions"}
CachedMods == {"A"}
RequestIDs == {requestID(fn, modID) : fn \in CachedFns, modID \in CachedMods}

\* The calls that can overlap: the functions are async and exported.
Callers == {1, 2}

\* What a query of the catalog returns: res.errors, res.getMod = null, or
\* res.getMod as the catalog holds it at that time.
Generations == {"d1", "d2"}
ServerAnswers == {"errors", "null"} \cup Generations
undefined == [kind |-> "undefined", id |-> "", gen |-> ""]
null == [kind |-> "null", id |-> "", gen |-> ""]
modOf(modID, gen) == [kind |-> "mod", id |-> modID, gen |-> gen]
versionsOf(modID, gen) == [kind |-> "versions", id |-> modID, gen |-> gen]

\* cachedFetch[action] is undefined.
NoFetch == [set |-> FALSE, time |-> 0, data |-> undefined]
\* A caller that is in no call; `fresh` is the data that the fetches of the
\* last fetchCooldown before the call have stored for its key.
NoCall == [pc |-> "idle", key |-> <<"", "">>, fresh |-> {}]
NoReturn == [kind |-> "none", key |-> <<"", "">>, value |-> undefined,
             fresh |-> {}, error |-> ""]

\* No call of the catalog functions of this model, and an empty cache.
CacheIdle ==
  /\ cachedFetch = [key \in RequestIDs |-> NoFetch]
  /\ now = 0
  /\ flight = [c \in Callers |-> NoCall]
  /\ ret = NoReturn
  /\ prevFetch = [key \in RequestIDs |-> NoFetch]

\* Nothing has happened outside the graph.
AsideInit ==
  /\ DiffIdle
  /\ op = NoOp
  /\ CacheIdle

\* new LockfileGraph(): no nodes, nothing asked of the catalog yet.
GraphInit ==
  /\ nodes = <<>>
  /\ published = [id \in Ids |-> NotFetched]
  /\ itemData = [key \in ItemKeys |-> NoData]
  /\ pc = "idle"
  /\ mode = "none"
  /\ i = 0
  /\ cur = NoNode
  /\ k = 0
  /\ result = "none"
  /\ atCall = <<>>
  /\ before = <<>>
  /\ last = NoStep
  /\ again = FALSE

Init == GraphInit /\ AsideInit

\* The errors a call can end with.
Errors == {"DependencyManifestMismatch", "UnsolvableDependency", "ModNotFound",
           "InvalidLockfileOperation", "ApiErrors", "TypeError", "ModCacheError"}

\* No call is running, and none has thrown: the owner of a graph drops it
\* when a call throws.
Idle == pc = "idle" /\ result \notin Errors

\* A synchronous call that ran to its end.
Called(step, ns) ==
  /\ Idle
  /\ nodes' = ns
  /\ atCall' = nodes
  /\ before' = nodes
  /\ result' = "ok"
  /\ last' = step
  /\ again' = FALSE
  /\ UNCHANGED <<published, itemData, pc, mode, i, cur, k>>
  /\ UNCHANGED aside

\* fromLockfile(lockfile) on the new graph: every entry is pushed.
FromLockfile ==
  /\ last.kind = "none"
  /\ \E lf \in Lockfiles :
       Called([NoStep EXCEPT !.kind = "fromLockfile"], nodes \o lf)

\* add(node), called by the owner of the graph.
Add ==
  /\ mode = "none"
  /\ Len(nodes) < MaxNodes
  /\ \E n \in NodeInputs :
       Called([NoStep EXCEPT !.kind = "add", !.node = n], add(nodes, n))

\* remove(node) of a node of the graph, called by the owner of the graph.
Remove ==
  /\ mode = "none"
  /\ \E j \in 1..Len(nodes) :
    Called([NoStep EXCEPT !.kind = "remove", !.node = nodes[j]],
           remove(nodes, nodes[j]))

\* The owner marks a loaded node as a manifest entry.
SetManifest ==
  /\ mode = "none"
  /\ \E j \in 1..Len(nodes) :
    /\ ~nodes[j].isInManifest
    /\ Called([NoStep EXCEPT !.kind = "setManifest", !.node = nodes[j]],
              [nodes EXCEPT ![j].isInManifest = TRUE])

\* cleanup(), which the owner calls once the graph has been validated.
Cleanup ==
  /\ mode # "none"
  /\ Called([NoStep EXCEPT !.kind = "cleanup"], cleanup(nodes))

\* ------------------------------------------------- validateAll / validate

\* utils.forEachAsync: the callback is awaited for array[index] while the
\* index is below the array's current length; indices are 1-based here.
forEachAsyncMore(index, array) == index <= Len(array)

\* validateAll(): forEachAsync starts over this.nodes.
ValidateAll ==
  /\ Idle
  /\ pc' = "loop"
  /\ mode' = "validateAll"
  /\ i' = 1
  /\ k' = 0
  /\ cur' = NoNode
  /\ result' = "running"
  /\ atCall' = nodes
  /\ before' = nodes
  /\ last' = [NoStep EXCEPT !.kind = "validateAll"]
  /\ again' = (mode = "validateAll" /\ last.kind = "return" /\ result = "ok")
  /\ UNCHANGED <<nodes, published, itemData>>
  /\ UNCHANGED aside

\* validate(node) of a node of the graph, called by the owner of the graph
\* as its first resolving call.
Validate ==
  /\ Idle
  /\ mode = "none"
  /\ \E j \in 1..Len(nodes) :
       /\ cur' = nodes[j]
       /\ IF Len(nodes[j].dependencies) = 0
          THEN pc' = "idle" /\ result' = "ok" /\ k' = 0
          ELSE pc' = "deps" /\ result' = "running" /\ k' = 1
       /\ last' = [NoStep EXCEPT !.kind = "validate", !.node = nodes[j]]
  /\ mode' = "validate"
  /\ i' = 0
  /\ atCall' = nodes
  /\ before' = nodes
  /\ again' = FALSE
  /\ UNCHANGED <<nodes, published, itemData>>
  /\ UNCHANGED aside

\* forEachAsync of validateAll calls validate with this.nodes[i], read from
\* the live array.
LoopNext ==
  /\ pc = "loop"
  /\ forEachAsyncMore(i, nodes)
  /\ cur' = nodes[i]
  /\ IF Len(nodes[i].dependencies) = 0
     THEN pc' = "loop" /\ i' = i + 1 /\ k' = 0
     ELSE pc' = "deps" /\ i' = i /\ k' = 1
  /\ before' = nodes
  /\ last' = [NoStep EXCEPT !.kind = "validate", !.node = nodes[i]]
  /\ UNCHANGED <<nodes, published, itemData, mode, result, atCall>>
  /\ UNCHANGED <<again, aside>>

\* forEachAsync of validateAll has passed the end of this.nodes.
LoopEnd ==
  /\ pc = "loop"
  /\ ~forEachAsyncMore(i, nodes)
  /\ pc' = "idle"
  /\ result' = "ok"
  /\ last' = [NoStep EXCEPT !.kind = "return"]
  /\ UNCHANGED <<nodes, published, itemData, mode, i, cur, k, atCall, before>>
  /\ UNCHANGED <<again, aside>>

\* The dependency validate is at, and the node of the graph with its id.
dependency == cur.dependencies[k]
dependencyNode == find(nodes, dependency.id)

\* Line 83 without the test of the version: every dependency is resolved
\* anew.
mustResolve_always(node, range) == TRUE

\* Line 83: the dependency has no node, or its node's version does not
\* satisfy the range.
mustResolve(node, range) ==
  node = NoNode \/ ~satisfies(node.version, range)

\* The manifest check of line 85 left out.
manifestMismatch_ignored(node) == FALSE

\* Lines 84-85: the node of the dependency is a manifest entry.
manifestMismatch(node) == node # NoNode /\ node.isInManifest

\* Lines 84-90: the graph once the unfit node of the dependency is removed.
withoutDependency(ns, node) ==
  IF node # NoNode THEN remove(ns, node) ELSE ns

\* The re-add of lines 117-119 left out.
restoreDependency_skipped(ns, node) == ns

\* Lines 116-119: the graph once the removed node is added again.
restoreDependency(ns, node) ==
  IF node # NoNode THEN add(ns, node) ELSE ns

\* forEachAsync of validateAll without the step of its index: the node is
\* validated again.
Continue_sameNode ==
  IF forEachAsyncMore(k + 1, cur.dependencies)
  THEN pc' = "deps" /\ k' = k + 1 /\ i' = i /\ result' = "running"
  ELSE IF mode = "validateAll"
       THEN pc' = "loop" /\ k' = 0 /\ i' = i /\ result' = "running"
       ELSE pc' = "idle" /\ k' = k /\ i' = i /\ result' = "ok"

\* The callback of validate's forEachAsync returned: on to the next
\* dependency, or validate returns.
Continue ==
  IF forEachAsyncMore(k + 1, cur.dependencies)
  THEN pc' = "deps" /\ k' = k + 1 /\ i' = i /\ result' = "running"
  ELSE IF mode = "validateAll"
       THEN pc' = "loop" /\ k' = 0 /\ i' = i + 1 /\ result' = "running"
       ELSE pc' = "idle" /\ k' = k /\ i' = i /\ result' = "ok"

\* The callback threw: both forEachAsync loops are left and the call rejects.
Throw(error) ==
  pc' = "idle" /\ k' = k /\ i' = i /\ result' = error

\* The record of a dependency step.
Step(kind, ranges, matching, bound, fetched) ==
  [kind |-> kind, node |-> cur, dep |-> dependency, prior |-> dependencyNode,
   ranges |-> ranges, matching |-> matching, bound |-> bound, fetched |-> fetched]

\* Lines 122-124: the dependency is satisfied by its node.
DepGood ==
  /\ pc = "deps"
  /\ ~mustResolve(dependencyNode, dependency.range)
  /\ Continue
  /\ before' = nodes
  /\ last' = Step("good", <<>>, <<>>, NoNode, FALSE)
  /\ UNCHANGED <<nodes, published, itemData, mode, cur, atCall>>
  /\ UNCHANGED <<again, aside>>

\* Lines 85-86: the unfit node is a manifest entry.
DepManifestMismatch ==
  /\ pc = "deps"
  /\ mustResolve(dependencyNode, dependency.range)
  /\ manifestMismatch(dependencyNode)
  /\ Throw("DependencyManifestMismatch")
  /\ before' = nodes
  /\ last' = Step("mismatch", <<>>, <<>>, NoNode, FALSE)
  /\ UNCHANGED <<nodes, published, itemData, mode, cur, atCall>>
  /\ UNCHANGED <<again, aside>>

\* The catalog's answer for an id: the one already given, or any.
Answers(id) ==
  IF published[id].kind = "none" THEN PublishedInputs ELSE {published[id]}

\* The catalog's data for <<id, version>>: the one already given, or any.
Datas(id, version) ==
  IF id = SatisfactoryGame THEN {NoData}
  ELSE IF itemData[<<id, version>>].kind = "none" THEN ItemInputs(id)
  ELSE {itemData[<<id, version>>]}

Remember(id, version, data) ==
  IF id = SatisfactoryGame THEN itemData
  ELSE [itemData EXCEPT ![<<id, version>>] = data]

\* Lines 96-97: findAllVersionsMatchingAll throws; the removed node stays
\* removed.
DepFetchError ==
  /\ pc = "deps"
  /\ mustResolve(dependencyNode, dependency.range)
  /\ ~manifestMismatch(dependencyNode)
  /\ \E answer \in Answers(dependency.id) :
       LET removed == withoutDependency(nodes, dependencyNode)
           ranges == versionConstraints(removed, dependency.id)
           matching == findAllVersionsMatchingAll(answer, ranges)
       IN  /\ matching.err # ""
           /\ nodes' = removed
           /\ published' = [published EXCEPT ![dependency.id] = answer]
           /\ Throw(matching.err)
           /\ last' = Step("fetchError", ranges, <<>>, NoNode, TRUE)
  /\ before' = nodes
  /\ UNCHANGED <<itemData, mode, cur, atCall>>
  /\ UNCHANGED <<again, aside>>

\* Lines 116-121: no version was found; the removed node is added again.
DepUnsolvable ==
  /\ pc = "deps"
  /\ mustResolve(dependencyNode, dependency.range)
  /\ ~manifestMismatch(dependencyNode)
  /\ \E answer \in Answers(dependency.id) :
       LET removed == withoutDependency(nodes, dependencyNode)
           ranges == versionConstraints(removed, dependency.id)
           matching == findAllVersionsMatchingAll(answer, ranges)
       IN  /\ matching.err = ""
           /\ matching.versions = {}
           /\ nodes' = restoreDependency(removed, dependencyNode)
           /\ published' = [published EXCEPT ![dependency.id] = answer]
           /\ Throw("UnsolvableDependency")
           /\ last' = Step("unsolvable", ranges, <<>>, NoNode, TRUE)
  /\ before' = nodes
  /\ UNCHANGED <<itemData, mode, cur, atCall>>
  /\ UNCHANGED <<again, aside>>

\* Line 105: getItemData of the popped version throws, outside the try
\* block: the error leaves validate and the removed node stays removed.
DepItemError ==
  /\ pc = "deps"
  /\ mustResolve(dependencyNode, dependency.range)
  /\ ~manifestMismatch(dependencyNode)
  /\ \E answer \in Answers(dependency.id) :
       LET removed == withoutDependency(nodes, dependencyNode)
           ranges == versionConstraints(removed, dependency.id)
           matching == findAllVersionsMatchingAll(answer, ranges)
           sorted == sortAscending(matching.versions)
       IN  /\ matching.err = ""
           /\ matching.versions # {}
           /\ \E data \in Datas(dependency.id, popVersion(sorted)) :
                LET item == getItemData(dependency.id, popVersion(sorted), answer, data)
                IN  /\ item.err # ""
                    /\ nodes' = removed
                    /\ published' = [published EXCEPT ![dependency.id] = answer]
                    /\ itemData' = Remember(dependency.id, popVersion(sorted), data)
                    /\ Throw(item.err)
                    /\ last' = Step("itemError", ranges, sorted, NoNode, TRUE)
  /\ before' = nodes
  /\ UNCHANGED <<mode, cur, atCall>>
  /\ UNCHANGED <<again, aside>>

\* Lines 105-111: the popped version's node is added and the loop ends.
DepFound ==
  /\ pc = "deps"
  /\ mustResolve(dependencyNode, dependency.range)
  /\ ~manifestMismatch(dependencyNode)
  /\ \E answer \in Answers(dependency.id) :
       LET removed == withoutDependency(nodes, dependencyNode)
           ranges == versionConstraints(removed, dependency.id)
           matching == findAllVersionsMatchingAll(answer, ranges)
           sorted == sortAscending(matching.versions)
       IN  /\ matching.err = ""
           /\ matching.versions # {}
           /\ \E data \in Datas(dependency.id, popVersion(sorted)) :
                LET item == getItemData(dependency.id, popVersion(sorted), answer, data)
                IN  /\ item.err = ""
                    /\ nodes' = add(removed, item.node)
                    /\ published' = [published EXCEPT ![dependency.id] = answer]
                    /\ itemData' = Remember(dependency.id, popVersion(sorted), data)
                    /\ Continue
                    /\ last' = Step("found", ranges, sorted, item.node, TRUE)
  /\ before' = nodes
  /\ UNCHANGED <<mode, cur, atCall>>
  /\ UNCHANGED <<again, aside>>

Next ==
  \/ FromLockfile
  \/ Add
  \/ Remove
  \/ SetManifest
  \/ Cleanup
  \/ ValidateAll
  \/ Validate
  \/ LoopNext
  \/ LoopEnd
  \/ DepGood
  \/ DepManifestMismatch
  \/ DepFetchError
  \/ DepUnsolvable
  \/ DepItemError
  \/ DepFound

Spec == Init /\ [][Next]_vars

\* The steps of a running validateAll() or validate(): the continuations of
\* its awaits.
Resolving ==
  \/ LoopNext
  \/ LoopEnd
  \/ DepGood
  \/ DepManifestMismatch
  \/ DepFetchError
  \/ DepUnsolvable
  \/ DepItemError
  \/ DepFound

\* The graphs a pass starts from, for termination: the mod A at its first
\* version with any of its dependency maps, alone or followed by the mod B,
\* a manifest entry or not.
StartNodes(id) ==
  {Node(id, V(1), d, m) : d \in DepsInputs(id), m \in BOOLEAN}
StartGraphs ==
  LET first == {n \in StartNodes("A") : ~n.isInManifest}
  IN  {<<a>> : a \in first} \cup {<<a, b>> : a \in first, b \in StartNodes("B")}

\* A graph to resolve, nothing asked of the catalog yet.
LiveInit ==
  /\ nodes \in StartGraphs
  /\ published = [id \in Ids |-> NotFetched]
  /\ itemData = [key \in ItemKeys |-> NoData]
  /\ pc = "idle"
  /\ mode = "none"
  /\ i = 0
  /\ cur = NoNode
  /\ k = 0
  /\ result = "none"
  /\ atCall = <<>>
  /\ before = <<>>
  /\ last = NoStep
  /\ again = FALSE
  /\ AsideInit

LiveNext ==
  \/ ValidateAll
  \/ Validate
  \/ Resolving

\* The catalog answers every query and the event loop runs every
\* continuation that is ready.
LiveSpec == LiveInit /\ [][LiveNext]_vars /\ WF_vars(Resolving)

\* ----------------------------------------------------- lockfileDifference

\* A lockfile as lockfileDifference reads it: the sequence of its keys in
\* insertion order, each with the version of its entry.
LockfileEntry(id, version) == [id |-> id, version |-> version]

\* `id in lockfile`
hasKey(lf, id) == \E j \in 1..Len(lf) : lf[j].id = id

\* `lockfile[id].version`, for an id that is a key
versionOf(lf, id) == lf[CHOOSE j \in 1..Len(lf) : lf[j].id = id].version

\* Object.keys(lockfile)
keys(lf) == {lf[j].id : j \in 1..Len(lf)}

\* LockfileGraph.toLockfile, as far as lockfileDifference reads it.
toLockfile(ns) == [j \in 1..Len(ns) |-> LockfileEntry(ns[j].id, ns[j].version)]

\* lockfileDifference without the comparison of the versions.
lockfileDifference_absentOnly(old, new) ==
  LET gone == SelectSeq(old, LAMBDA e : ~hasKey(new, e.id))
      come == SelectSeq(new, LAMBDA e : ~hasKey(old, e.id))
  IN  [done |-> TRUE,
       install |-> come,
       uninstall |-> [j \in 1..Len(gone) |-> gone[j].id]]

\* lockfileDifference whose install side holds the new ids only, not the
\* ids whose version changed.
lockfileDifference_newIdsOnly(old, new) ==
  LET gone == SelectSeq(old, LAMBDA e :
                \/ ~hasKey(new, e.id)
                \/ versionOf(old, e.id) # versionOf(new, e.id))
      come == SelectSeq(new, LAMBDA e : ~hasKey(old, e.id))
  IN  [done |-> TRUE,
       install |-> come,
       uninstall |-> [j \in 1..Len(gone) |-> gone[j].id]]

\* lockfileDifference(oldLockfile, newLockfile): the ids to uninstall in
\* the key order of the old lockfile, the entries to install in the key
\* order of the new one.
lockfileDifference(old, new) ==
  LET gone == SelectSeq(old, LAMBDA e :
                \/ ~hasKey(new, e.id)
                \/ versionOf(old, e.id) # versionOf(new, e.id))
      come == SelectSeq(new, LAMBDA e :
                \/ ~hasKey(old, e.id)
                \/ versionOf(old, e.id) # versionOf(new, e.id))
  IN  [done |-> TRUE,
       install |-> [j \in 1..Len(come) |->
                      LockfileEntry(come[j].id, versionOf(new, come[j].id))],
       uninstall |-> [j \in 1..Len(gone) |-> gone[j].id]]

\* The caller applies a diff to an id-to-version map: the ids of uninstall
\* are removed first, then every entry of install is set.
applyDiff(lf, d) ==
  LET kept == SelectSeq(lf, LAMBDA e :
                \A j \in 1..Len(d.uninstall) : d.uninstall[j] # e.id)
      fresh == SelectSeq(d.install, LAMBDA e : ~hasKey(kept, e.id))
  IN  [j \in 1..Len(kept) |->
         IF hasKey(d.install, kept[j].id)
         THEN LockfileEntry(kept[j].id, versionOf(d.install, kept[j].id))
         ELSE kept[j]] \o fresh

\* The ids a lockfile can hold, and the lockfiles of the bounded universe:
\* one entry per id, in any key order.
LockfileIds == ModIds \cup {SML}
LockfileInputs ==
  {lf \in UNION {[1..n -> {LockfileEntry(id, v) : id \in LockfileIds, v \in Versions}] :
                   n \in 0..Cardinality(LockfileIds)} :
     \A a, b \in 1..Len(lf) : a # b => lf[a].id # lf[b].id}

\* Two lockfiles are at hand; the graph plays no part.
DiffInit ==
  /\ GraphInit
  /\ oldLockfile \in LockfileInputs
  /\ newLockfile \in LockfileInputs
  /\ diff = NoDiff
  /\ applied = NotApplied
  /\ op = NoOp
  /\ CacheIdle

\* lockfileDifference(oldLockfile, newLockfile) is called.
LockfileDifference ==
  /\ ~diff.done
  /\ diff' = lockfileDifference(oldLockfile, newLockfile)
  /\ UNCHANGED <<oldLockfile, newLockfile, applied>>
  /\ UNCHANGED <<graphVars, op, cacheVars>>

\* The caller applies the diff to the entries of the old lockfile.
ApplyDiff ==
  /\ diff.done
  /\ ~applied.done
  /\ applied' = [done |-> TRUE, map |-> applyDiff(oldLockfile, diff)]
  /\ UNCHANGED <<oldLockfile, newLockfile, diff>>
  /\ UNCHANGED <<graphVars, op, cacheVars>>

DiffNext ==
  \/ LockfileDifference
  \/ ApplyDiff

SpecDiff == DiffInit /\ [][DiffNext]_vars

\* ------------------------------------------- installMod / uninstallMod

\* The universe of the test (main): the game version, the mod of the
\* catalog and the versions of dummyMod1 the test puts in the mod cache.
dummySfVersion == 109000
dummyMod1 == "dummyMod1"
depMod == "6vQ6ckVYFiidDh"
dummyMods ==
  (<<1, 0, 0>> :> <<Dep(SML, "eq", <<2, 0, 0>>), Dep(depMod, "caret", <<1, 1, 0>>)>>)
    @@ (<<1, 0, 1>> :> <<Dep(SML, "ge", <<1, 0, 0>>), Dep(depMod, "caret", <<1, 2, 0>>)>>)
    @@ (<<1, 0, 2>> :> <<Dep(SML, "eq", <<1, 0, 1>>), Dep(depMod, "caret", <<1, 3, 0>>)>>)
    @@ (<<1, 0, 3>> :> <<Dep(SML, "caret", <<1, 0, 0>>), Dep(depMod, "caret", <<1, 5, 2>>)>>)

\* The versions the catalog lists for SML and for the mod.
smlVersions == {<<1, 0, 0>>, <<1, 0, 1>>, <<2, 0, 0>>}
depModVersions == {<<1, 4, 1>>}

\* Another mod of the catalog and the mod it depends on, each with one
\* version.
otherMod == "A"
otherLib == "B"
otherVersions == {<<1, 0, 0>>}

\* The game as the owner adds it to the graph: a manifest entry.
satisfactoryNode == Node(SatisfactoryGame, coerce(dummySfVersion), <<>>, TRUE)

\* Archive data with the given dependencies and sml_version.
ModData(dependencies, sml_version) ==
  [kind |-> "ok", hasDependencies |-> TRUE, dependencies |-> dependencies,
   sml_version |-> sml_version, satisfactory_version |-> 0]

\* The catalog of the test: it lists the versions or answers with an error.
TestCatalogs ==
  {(SML :> a) @@ (depMod :> b)
     @@ (dummyMod1 :> [kind |-> "ok", versions |-> DOMAIN dummyMods])
     @@ (otherMod :> [kind |-> "ok", versions |-> otherVersions])
     @@ (otherLib :> [kind |-> "ok", versions |-> otherVersions])
     @@ (SatisfactoryGame :> [kind |-> "null", versions |-> {}]) :
   a \in {[kind |-> "ok", versions |-> smlVersions],
          [kind |-> "errors", versions |-> {}]},
   b \in {[kind |-> "ok", versions |-> depModVersions],
          [kind |-> "errors", versions |-> {}]}}

\* The archives and SML records of the test.  The archive of the mod of
\* the catalog declares nothing, or an sml_version, or cannot be had.
TestItemData ==
  {[key \in ({SML} \X smlVersions) \cup ({depMod} \X depModVersions)
             \cup ({dummyMod1} \X DOMAIN dummyMods)
             \cup ({otherMod, otherLib} \X otherVersions) |->
      CASE key[1] = SML ->
             [kind |-> "ok", hasDependencies |-> FALSE, dependencies |-> <<>>,
              sml_version |-> 0, satisfactory_version |-> dummySfVersion]
        [] key[1] = dummyMod1 -> ModData(dummyMods[key[2]], 0)
        [] key[1] = otherMod ->
             ModData(<<Dep(otherLib, "caret", <<1, 0, 0>>)>>, 0)
        [] key[1] = otherLib -> ModData(<<>>, 0)
        [] OTHER -> d] :
   d \in {ModData(<<>>, 0), ModData(<<>>, 1), ModData(<<>>, 2),
          [NoData EXCEPT !.kind = "fail"]}}

\* The installMod(id, version) calls: those of the test, and that of the
\* other mod.
InstallInputs ==
  {[id |-> depMod, version |-> v] : v \in depModVersions}
    \cup {[id |-> dummyMod1, version |-> v] : v \in DOMAIN dummyMods}
    \cup {[id |-> otherMod, version |-> v] : v \in otherVersions}

\* A new SatisfactoryInstall: the graph holds the game, no mod is installed.
InstallInit ==
  /\ nodes = <<satisfactoryNode>>
  /\ published \in TestCatalogs
  /\ itemData \in TestItemData
  /\ pc = "idle"
  /\ mode = "none"
  /\ i = 0
  /\ cur = NoNode
  /\ k = 0
  /\ result = "none"
  /\ atCall = <<>>
  /\ before = <<>>
  /\ last = NoStep
  /\ again = FALSE
  /\ DiffIdle
  /\ op = NoOp
  /\ CacheIdle

\* The owner starts validateAll() on the graph `ns` it has prepared.
StartValidateAll(ns) ==
  /\ nodes' = ns
  /\ pc' = "loop"
  /\ mode' = "validateAll"
  /\ i' = 1
  /\ k' = 0
  /\ cur' = NoNode
  /\ result' = "running"
  /\ atCall' = ns
  /\ before' = ns
  /\ last' = [NoStep EXCEPT !.kind = "validateAll"]
  /\ again' = FALSE
  /\ UNCHANGED <<published, itemData>>

\* installMod(id, version): the item becomes a manifest entry; its node,
\* made by getItemData, takes the place of the node of the same id, and
\* validateAll() is started.  When getItemData throws, so does installMod.
InstallMod ==
  /\ pc = "idle"
  /\ op.phase # "validating"
  /\ \E req \in InstallInputs :
       LET item == getItemData(req.id, req.version, published[SML],
                               itemData[<<req.id, req.version>>])
           call == [kind |-> "install", id |-> req.id, version |-> req.version,
                    prior |-> nodes, phase |-> "validating", error |-> ""]
       IN  IF item.err # ""
           THEN /\ op' = [call EXCEPT !.phase = "done", !.error = item.err]
                /\ UNCHANGED graphVars
           ELSE /\ op' = call
                /\ StartValidateAll(
                     add(withoutDependency(nodes, find(nodes, req.id)),
                         [item.node EXCEPT !.isInManifest = TRUE]))
  /\ UNCHANGED <<diffVars, cacheVars>>

\* uninstallMod(id): the item is no manifest entry any more, its node
\* loses the flag, and validateAll() is started.
UninstallMod ==
  /\ pc = "idle"
  /\ op.phase # "validating"
  /\ \E j \in 1..Len(nodes) :
       /\ nodes[j].id \notin {SML, SatisfactoryGame}
       /\ nodes[j].isInManifest
       /\ op' = [kind |-> "uninstall", id |-> nodes[j].id,
                 version |-> nodes[j].version, prior |-> nodes,
                 phase |-> "validating", error |-> ""]
       /\ StartValidateAll([nodes EXCEPT ![j].isInManifest = FALSE])
  /\ UNCHANGED <<diffVars, cacheVars>>

\* validateAll() returned: the owner calls cleanup() and keeps the graph as
\* the new lockfile.
Finish ==
  /\ pc = "idle"
  /\ op.phase = "validating"
  /\ result = "ok"
  /\ nodes' = cleanup(nodes)
  /\ atCall' = nodes
  /\ before' = nodes
  /\ last' = [NoStep EXCEPT !.kind = "cleanup"]
  /\ op' = [op EXCEPT !.phase = "done"]
  /\ UNCHANGED <<published, itemData, pc, mode, i, cur, k, result, again>>
  /\ UNCHANGED <<diffVars, cacheVars>>

\* validateAll() threw: the owner restores the prior lockfile and manifest.
Restore ==
  /\ pc = "idle"
  /\ op.phase = "validating"
  /\ result \in Errors
  /\ nodes' = op.prior
  /\ op' = [op EXCEPT !.phase = "done", !.error = result]
  /\ UNCHANGED <<published, itemData, pc, mode, i, cur, k, result, atCall,
                 before, last, again>>
  /\ UNCHANGED <<diffVars, cacheVars>>

InstallNext ==
  \/ InstallMod
  \/ UninstallMod
  \/ Finish
  \/ Restore
  \/ LoopNext
  \/ LoopEnd
  \/ DepGood
  \/ DepManifestMismatch
  \/ DepFetchError
  \/ DepUnsolvable
  \/ DepItemError
  \/ DepFound

SpecInstall == InstallInit /\ [][InstallNext]_vars

\* getInstalledMods(): the nodes of the mods, without SML and the game.
installedMods(ns) ==
  SelectSeq(ns, LAMBDA g : g.id \notin {SML, SatisfactoryGame})

\* ------------------------------------------------------ the catalog cache

\* fetchCooldown = 5 * 60 * 1000 milliseconds, in minutes.
fetchCooldown == 5

cooldownPassed(action) ==
  IF cachedFetch[action].set
    THEN now - cachedFetch[action].time > fetchCooldown
    ELSE TRUE

getCache(action) ==
  IF cachedFetch[action].set THEN cachedFetch[action].data ELSE undefined

setCache(action, data) ==
  /\ cachedFetch' = [cachedFetch EXCEPT
                       ![action] = [set |-> TRUE, time |-> now, data |-> data]]
  /\ prevFetch' = [prevFetch EXCEPT ![action] = cachedFetch[action]]

\* The data that the successful fetches of the last five minutes have stored
\* for the key: the entry of the cache and the entry it has replaced.  Of two
\* fetches that stored in the same minute, the data stored at that time is
\* the data of the later one.
freshData(action) ==
  LET fresh(f) == f.set /\ f.time <= now /\ now - f.time <= 5
      entry == cachedFetch[action]
      replaced == prevFetch[action]
  IN  {f.data : f \in {g \in {entry} : fresh(g)}}
        \cup {f.data : f \in {g \in {replaced} :
                                fresh(g) /\ g.time < entry.time}}

\* The cache is empty, the clock starts, the catalog holds some answer.
CacheInit ==
  /\ GraphInit
  /\ DiffIdle
  /\ op = NoOp
  /\ cachedFetch = [key \in RequestIDs |-> NoFetch]
  /\ now = 0
  /\ flight = [c \in Callers |-> NoCall]
  /\ ret = NoReturn
  /\ prevFetch = [key \in RequestIDs |-> NoFetch]

\* Lines 168 and 214: the call either sends its query and awaits the answer,
\* or goes straight to `return getCache(requestID)`.
Fetch(c, fn, modID) ==
  LET key == requestID(fn, modID) IN
  /\ flight[c].pc = "idle"
  /\ IF cooldownPassed(key)
       THEN /\ flight' = [flight EXCEPT
                            ![c] = [pc |-> "await", key |-> key,
                                    fresh |-> freshData(key)]]
            /\ UNCHANGED ret
       ELSE /\ ret' = [NoReturn EXCEPT
                         !.kind = "cached", !.key = key,
                         !.value = getCache(key), !.fresh = freshData(key)]
            /\ UNCHANGED flight
  /\ UNCHANGED <<cachedFetch, prevFetch, now>>
  /\ UNCHANGED <<graphVars, diffVars, op>>

\* getMod(modID) is called.
GetMod ==
  \E c \in Callers, modID \in CachedMods : Fetch(c, "getMod", modID)

\* getModVersions(modID) is called.
GetModVersions ==
  \E c \in Callers, modID \in CachedMods : Fetch(c, "getModVersions", modID)

\* The call throws; the cache is as it was.
Thrown(c, error) ==
  /\ ret' = [NoReturn EXCEPT
               !.kind = "throw", !.key = flight[c].key,
               !.fresh = flight[c].fresh, !.error = error]
  /\ UNCHANGED <<cachedFetch, prevFetch>>

\* setCache(requestID, data); return getCache(requestID).
Fetched(c, data) ==
  LET key == flight[c].key IN
  /\ setCache(key, data)
  /\ ret' = [NoReturn EXCEPT
               !.kind = "fetched", !.key = key,
               !.value = cachedFetch'[key].data, !.fresh = flight[c].fresh]

\* The answer to a getMod query arrives (lines 203-209).
GetModAnswer ==
  \E c \in Callers, res \in ServerAnswers :
    /\ flight[c].pc = "await"
    /\ flight[c].key[1] = "getMod"
    /\ IF res = "errors"
         THEN Thrown(c, "ApiErrors")
         ELSE Fetched(c, IF res = "null"
                           THEN null
                           ELSE modOf(flight[c].key[2], res))
    /\ flight' = [flight EXCEPT ![c] = NoCall]
    /\ UNCHANGED now
    /\ UNCHANGED <<graphVars, diffVars, op>>

\* The answer to a getModVersions query arrives (lines 238-246).
GetModVersionsAnswer ==
  \E c \in Callers, res \in ServerAnswers :
    /\ flight[c].pc = "await"
    /\ flight[c].key[1] = "getModVersions"
    /\ IF res = "errors"
         THEN Thrown(c, "ApiErrors")
         ELSE IF res # "null"
           THEN Fetched(c, versionsOf(flight[c].key[2], res))
           ELSE Thrown(c, "ModNotFoundError")
    /\ flight' = [flight EXCEPT ![c] = NoCall]
    /\ UNCHANGED now
    /\ UNCHANGED <<graphVars, diffVars, op>>

\* A minute passes.
Tick ==
  /\ now < MaxTime
  /\ now' = now + 1
  /\ UNCHANGED <<cachedFetch, prevFetch, flight, ret>>
  /\ UNCHANGED <<graphVars, diffVars, op>>

CacheNext ==
  \/ GetMod
  \/ GetModVersions
  \/ GetModAnswer
  \/ GetModVersionsAnswer
  \/ Tick

SpecCache == CacheInit /\ [][CacheNext]_vars

\* ------------------------------------------------------------ properties

\* The node list holds a node with this id and version.
Holds(ns, id, version) ==
  \E j \in 1..Len(ns) : ns[j].id = id /\ ns[j].version = version

\* Every dependency of every node of the list is satisfied by a node of the
\* list.
AllSatisfied(ns) ==
  \A j \in 1..Len(ns) : \A d \in 1..Len(ns[j].dependencies) :
    \E h \in 1..Len(ns) :
      /\ ns[h].id = ns[j].dependencies[d].id
      /\ satisfies(ns[h].version, ns[j].dependencies[d].range)

\* The last step was one of validateAll or validate.
ByResolver ==
  last.kind \in {"validateAll", "validate", "return", "good", "mismatch",
                 "fetchError", "unsolvable", "itemError", "found"}

\* C1: when validateAll() returns without an error, every dependency of
\* every node of the graph is satisfied by the version of a node of the graph.
C1_ValidateAllSound ==
  (mode = "validateAll" /\ last.kind = "return" /\ result = "ok")
    => AllSatisfied(nodes)

\* C2: during and after validate, validateAll and cleanup, whether the call
\* succeeds or throws, every node that was a manifest entry when the call
\* started is in the graph with the same id and version.
C2_ManifestPreserved ==
  (ByResolver \/ last.kind = "cleanup") =>
    \A j \in 1..Len(atCall) :
      atCall[j].isInManifest => Holds(nodes, atCall[j].id, atCall[j].version)

\* A validation that threw after it had removed a node, in a graph with a
\* manifest entry.
C2_Witness ==
  /\ ByResolver
  /\ result \in Errors
  /\ Pins(nodes) # Pins(atCall)
  /\ \E j \in 1..Len(atCall) : atCall[j].isInManifest

\* validate is at a dependency whose node is a manifest entry of an unfit
\* version.
AtManifestMismatch ==
  /\ pc = "deps"
  /\ \E j \in 1..Len(nodes) :
       /\ nodes[j].id = cur.dependencies[k].id
       /\ \A h \in 1..(j - 1) : nodes[h].id # nodes[j].id
       /\ ~satisfies(nodes[j].version, cur.dependencies[k].range)
       /\ nodes[j].isInManifest

\* C3: when validate reaches a dependency whose node D is a manifest entry
\* and does not satisfy the range, the call throws
\* DependencyManifestMismatch, the graph is left as it is (D is not
\* removed), the catalog is not asked anything, and the call ends at that
\* dependency.
C3_ManifestMismatch ==
  [][AtManifestMismatch =>
       /\ result' = "DependencyManifestMismatch"
       /\ pc' = "idle"
       /\ nodes' = nodes
       /\ published' = published
       /\ itemData' = itemData
       /\ ~last'.fetched
       /\ k' = k /\ i' = i]_vars

\* The call threw DependencyManifestMismatch at a dependency that is not
\* the last one of its node.
C3_Witness ==
  /\ result = "DependencyManifestMismatch"
  /\ last.kind = "mismatch"
  /\ k < Len(cur.dependencies)
  /\ Holds(nodes, last.prior.id, last.prior.version)

C5_NewestFirst ==
  last.kind = "found" =>
    /\ find(nodes, last.dep.id) = last.bound
    /\ \A v \in published[last.dep.id].versions :
         versionSatisfiesAll(v, last.ranges) => compare(v, last.bound.version) <= 0

\* A node was bound while two published versions satisfied the ranges.
C5_Witness ==
  /\ last.kind = "found"
  /\ Len(last.matching) >= 2
  /\ find(nodes, last.dep.id).version = last.matching[Len(last.matching)]

\* C6: a candidate that validate accepts for a dependency has been
\* validated: each of its own dependencies is satisfied by a node of the
\* graph.
C6_AcceptedCandidateValidated ==
  last.kind = "found" =>
    \A d \in 1..Len(last.bound.dependencies) :
      \E h \in 1..Len(nodes) :
        /\ nodes[h].id = last.bound.dependencies[d].id
        /\ satisfies(nodes[h].version, last.bound.dependencies[d].range)

\* C7: when findAllVersionsMatchingAll gave candidates, validate fails only
\* with UnsolvableDependency: an error of getItemData for a candidate is
\* not the error of the call.
C7_ItemErrorSkipsCandidate ==
  (result \in Errors /\ last.fetched /\ last.dep.id # SatisfactoryGame
     /\ last.matching # <<>>)
    => result = "UnsolvableDependency"

\* C8: the version validate(N) binds for a dependency satisfies N's own
\* range on it and the range of every other node of the graph that names
\* it.
C8_ConjoinedConstraints ==
  last.kind = "found" =>
    /\ satisfies(last.bound.version, last.dep.range)
    /\ \A j \in 1..Len(nodes) :
         (nodes[j] # last.bound /\ HasDep(nodes[j].dependencies, last.dep.id)) =>
           satisfies(last.bound.version, DepRange(nodes[j].dependencies, last.dep.id))

\* C9: the graph holds at most one node per id, and add of a node whose id
\* is present leaves the node list as it was.
C9_UniqueId ==
  /\ \A a, b \in 1..Len(nodes) : a # b => nodes[a].id # nodes[b].id
  /\ (last.kind = "add" /\ \E j \in 1..Len(before) : before[j].id = last.node.id)
       => nodes = before

\* add was called with a node whose id the graph held.
C9_Witness ==
  /\ last.kind = "add"
  /\ \E j \in 1..Len(before) :
       before[j].id = last.node.id /\ before[j].version # last.node.version
  /\ nodes = before

\* The graph holds a node of the game.
HasGame(ns) == \E j \in 1..Len(ns) : ns[j].id = SatisfactoryGame

C11_CatalogLookupOutcomes ==
  (ByResolver /\ last.fetched) =>
    LET answer == published[last.dep.id]
        matching == {v \in answer.versions : versionSatisfiesAll(v, last.ranges)}
    IN  /\ answer.kind = "null" => result = "ModNotFound"
        /\ answer.kind = "ok" =>
             /\ last.kind # "fetchError"
             /\ matching = {} => last.kind = "unsolvable"
             /\ matching # {} =>
                  {last.matching[j] : j \in 1..Len(last.matching)} = matching

\* A step of a running validateAll that changes nothing: no node is added or
\* removed, the catalog is not asked, and no error is thrown.
QuietStep ==
  /\ nodes' = nodes
  /\ published' = published
  /\ itemData' = itemData
  /\ ~last'.fetched
  /\ result' \notin Errors

\* C12: validateAll on a graph in which every dependency is satisfied
\* succeeds, leaves the node list as it is and asks the catalog nothing;
\* and so does a validateAll that is run right after a successful one.
C12_ValidateAllNoOp ==
  [][(mode = "validateAll" /\ pc # "idle" /\ (AllSatisfied(atCall) \/ again))
       => QuietStep]_vars

\* C13: after cleanup() every node of the graph is a manifest entry or has
\* a dependant among the nodes of the graph.
C13_NoDanglingAfterCleanup ==
  last.kind = "cleanup" =>
    \A j \in 1..Len(nodes) :
      \/ nodes[j].isInManifest
      \/ \E h \in 1..Len(nodes) : HasDep(nodes[h].dependencies, nodes[j].id)

\* C14: a second cleanup() right after a first one removes no node:
\* cleanup(cleanup(G)) = cleanup(G).
C14_CleanupIdempotent ==
  last.kind = "cleanup" => cleanup(cleanup(before)) = cleanup(before)

\* The <<id, version>> pairs of a lockfile or of the install map.
Entries(lf) == {<<lf[j].id, lf[j].version>> : j \in 1..Len(lf)}

\* C15: uninstall holds the ids of old that are absent from new or have
\* another version in new, each once; install maps the ids of new that
\* are absent from old or have another version in old to their version in
\* new; the diff of a lockfile with itself is empty on both sides.
C15_DiffMembership ==
  diff.done =>
    /\ {diff.uninstall[j] : j \in 1..Len(diff.uninstall)} =
         {id \in keys(oldLockfile) :
            \/ id \notin keys(newLockfile)
            \/ <<id, versionOf(oldLockfile, id)>> \notin Entries(newLockfile)}
    /\ \A a, b \in 1..Len(diff.uninstall) :
         a # b => diff.uninstall[a] # diff.uninstall[b]
    /\ Entries(diff.install) = Entries(newLockfile) \ Entries(oldLockfile)
    /\ \A a, b \in 1..Len(diff.install) :
         a # b => diff.install[a].id # diff.install[b].id
    /\ Entries(oldLockfile) = Entries(newLockfile) =>
         diff.install = <<>> /\ diff.uninstall = <<>>

\* A diff of two lockfiles where one id changed its version (it is in both
\* sides), one id is gone and one id is new.
C15_Witness ==
  /\ diff.done
  /\ \E id \in keys(oldLockfile) \cap keys(newLockfile) :
       /\ versionOf(oldLockfile, id) # versionOf(newLockfile, id)
       /\ hasKey(diff.install, id)
       /\ \E j \in 1..Len(diff.uninstall) : diff.uninstall[j] = id
  /\ keys(oldLockfile) \ keys(newLockfile) # {}
  /\ keys(newLockfile) \ keys(oldLockfile) # {}

\* C16: removing the ids of diff(L1, L2).uninstall from L1's id-to-version
\* map and then setting every entry of diff(L1, L2).install gives exactly
\* the ids of L2, each at its version in L2.
C16_DiffApplication ==
  applied.done =>
    /\ Entries(applied.map) = Entries(newLockfile)
    /\ Len(applied.map) = Len(newLockfile)

\* A diff was applied that removed an id, changed the version of another
\* and kept a third as it was.
C16_Witness ==
  /\ applied.done
  /\ keys(oldLockfile) \ keys(newLockfile) # {}
  /\ \E id \in keys(oldLockfile) \cap keys(newLockfile) :
       versionOf(oldLockfile, id) # versionOf(newLockfile, id)
  /\ Entries(oldLockfile) \cap Entries(newLockfile) # {}

\* Scenario 2 has run: the catalog lists SML 1.0.0, 1.0.1 and 2.0.0, the
\* game is pinned at 109000 and the mod of the catalog is a manifest entry
\* at 1.4.1, and installMod(dummyMod1, 1.0.0) has ended.
Scenario2 ==
  /\ op.kind = "install" /\ op.id = dummyMod1 /\ op.version = <<1, 0, 0>>
  /\ op.phase = "done"
  /\ published[SML] = [kind |-> "ok", versions |-> smlVersions]
  /\ \E j \in 1..Len(op.prior) : op.prior[j] = satisfactoryNode
  /\ \E j \in 1..Len(op.prior) :
       /\ op.prior[j].id = depMod /\ op.prior[j].version = <<1, 4, 1>>
       /\ op.prior[j].isInManifest

UninstalledWithDependant ==
  /\ op.kind = "uninstall" /\ op.phase = "done" /\ op.error = ""
  /\ \E j \in 1..Len(nodes) :
       /\ nodes[j].isInManifest
       /\ HasDep(nodes[j].dependencies, op.id)
       /\ satisfies(op.version, DepRange(nodes[j].dependencies, op.id))

\* C18: after the manifest flag of X is cleared and validateAll() and
\* cleanup() have run, X is in the graph at the same version and the number
\* of mod nodes is unchanged, if a manifest entry still names X with a
\* range that X's version satisfies.
C18_UninstallKeepsDependency ==
  UninstalledWithDependant =>
    /\ Holds(nodes, op.id, op.version)
    /\ Len(installedMods(nodes)) = Len(installedMods(op.prior))

\* C19: catalog memoization with a 5-minute TTL per request key.  After a
\* successful fetch for a key at time t, a call with the same key at a time
\* t' with t' - t within 5 minutes issues no request and returns the data
\* stored at t; a call beyond 5 minutes issues a new request; an entry holds
\* only what a call with its own key has fetched.
C19_CacheTTL ==
  /\ \A c \in Callers : flight[c].pc = "await" => flight[c].fresh = {}
  /\ ret.kind \in {"fetched", "throw"} => ret.fresh = {}
  /\ ret.kind = "cached" => ret.fresh # {} /\ ret.fresh = {ret.value}
  /\ \A key \in RequestIDs :
       cachedFetch[key].set =>
         cachedFetch[key].data \in
           IF key[1] = "getMod"
             THEN {null} \cup {modOf(key[2], gen) : gen \in Generations}
             ELSE {versionsOf(key[2], gen) : gen \in Generations}

\* C20: termination.  Every validateAll() and validate() that has started
\* eventually returns or raises, with a finite catalog that may hold
\* dependency cycles and with a node list that grows during the pass.
C20_Terminates == (pc # "idle") ~> (pc = "idle")

\* Two nodes of the list depend on each other, or a node on itself.
HasCycle(ns) ==
  \E g \in 1..Len(ns), h \in 1..Len(ns) :
    HasDep(ns[g].dependencies, ns[h].id) /\ HasDep(ns[h].dependencies, ns[g].id)

\* A validateAll() has returned from a list with a dependency cycle that
\* grew during the pass.
C20_Witness ==
  /\ mode = "validateAll"
  /\ pc = "idle"
  /\ last.kind = "return"
  /\ Len(nodes) > Len(atCall)
  /\ HasCycle(nodes)

\* C21: failure atomicity of one resolution step.  When validate raises an
\* error while it resolves a dependency (UnsolvableDependency, an error of
\* findAllVersionsMatchingAll, an error of getItemData), a node of the
\* dependency that was in the graph before the step and is no manifest entry
\* is in the graph afterwards at its prior version, and no candidate node
\* added during the step remains.
C21_StepFailureAtomic ==
  (/\ result \in Errors
   /\ last.kind \in {"unsolvable", "fetchError", "itemError"}
   /\ last.prior # NoNode
   /\ ~last.prior.isInManifest)
    => /\ Holds(nodes, last.dep.id, last.prior.version)
       /\ Pins(nodes) \subseteq Pins(before)

====
